---- MODULE Spec2Model ----
(***************************************************************************)
(* check_white_rabbit: a Nagios/Icinga plugin that queries a White Rabbit  *)
(* switch over SNMP.  One invocation of main() runs one check mode: it     *)
(* fetches a status scalar, resolves it with the mode's status map,        *)
(* fetches the mode's auxiliary scalars or table columns, prints one line  *)
(* and exits.  Every remote operation is one step of the model; the final  *)
(* step of a mode formats the line and exits.                              *)
(*                                                                         *)
(* A printed line is the sequence of the string pieces that the source's   *)
(* f-strings and joins concatenate, in order.                              *)
(***************************************************************************)
EXTENDS Integers, Sequences, FiniteSets, TLC

(***************************************************************************)
(* Bounds of the model                                                     *)
(***************************************************************************)
\* status codes returned by the device range over -1..MaxStatus and BigStatus
MaxStatus == 6
BigStatus == 1000
\* sensor readings, thresholds and memory figures range over 1..MaxReading
MaxReading == 2
\* a walked table has at most MaxRows rows
MaxRows == 2
\* format_octetstring is applied to payloads of at most MaxOctets bytes
MaxOctets == 8

(***************************************************************************)
(* OID definitions                                                         *)
(***************************************************************************)
CPU_STATUS_OID == "1.3.6.1.4.1.96.100.6.2.1.4.0"
CPU_NUMERIC_OIDS ==
    << [k |-> "cpu1",  oid |-> "1.3.6.1.4.1.96.100.7.1.5.1.0"],
       [k |-> "cpu5",  oid |-> "1.3.6.1.4.1.96.100.7.1.5.2.0"],
       [k |-> "cpu15", oid |-> "1.3.6.1.4.1.96.100.7.1.5.3.0"] >>

OS_STATUS_OID == "1.3.6.1.4.1.96.100.6.1.2.0"
MAIN_STATUS_OID == "1.3.6.1.4.1.96.100.6.1.1.0"
TIMING_STATUS_OID == "1.3.6.1.4.1.96.100.6.1.3.0"
NET_STATUS_OID == "1.3.6.1.4.1.96.100.6.1.4.0"

TEMP_STATUS_OID == "1.3.6.1.4.1.96.100.6.2.1.2.0"
TEMP_VALUE_OIDS ==
    << [k |-> "fpga", oid |-> "1.3.6.1.4.1.96.100.7.1.3.1.0"],
       [k |-> "pll",  oid |-> "1.3.6.1.4.1.96.100.7.1.3.2.0"],
       [k |-> "psl",  oid |-> "1.3.6.1.4.1.96.100.7.1.3.3.0"],
       [k |-> "psr",  oid |-> "1.3.6.1.4.1.96.100.7.1.3.4.0"] >>
TEMP_THRESH_OIDS ==
    << [k |-> "fpga", oid |-> "1.3.6.1.4.1.96.100.7.1.3.5.0"],
       [k |-> "pll",  oid |-> "1.3.6.1.4.1.96.100.7.1.3.6.0"],
       [k |-> "psl",  oid |-> "1.3.6.1.4.1.96.100.7.1.3.7.0"],
       [k |-> "psr",  oid |-> "1.3.6.1.4.1.96.100.7.1.3.8.0"] >>

MEM_STATUS_OID == "1.3.6.1.4.1.96.100.6.2.1.3.0"
MEM_VALUE_OIDS ==
    << [k |-> "total",    oid |-> "1.3.6.1.4.1.96.100.7.1.4.1.0"],
       [k |-> "used",     oid |-> "1.3.6.1.4.1.96.100.7.1.4.2.0"],
       [k |-> "usedPerc", oid |-> "1.3.6.1.4.1.96.100.7.1.4.3.0"],
       [k |-> "free",     oid |-> "1.3.6.1.4.1.96.100.7.1.4.4.0"] >>

DISK_STATUS_OID == "1.3.6.1.4.1.96.100.6.2.1.5.0"
DISK_TABLE ==
    << [k |-> "mount",  oid |-> "1.3.6.1.4.1.96.100.7.1.6.1.2"],
       [k |-> "size",   oid |-> "1.3.6.1.4.1.96.100.7.1.6.1.3"],
       [k |-> "used",   oid |-> "1.3.6.1.4.1.96.100.7.1.6.1.4"],
       [k |-> "free",   oid |-> "1.3.6.1.4.1.96.100.7.1.6.1.5"],
       [k |-> "usePct", oid |-> "1.3.6.1.4.1.96.100.7.1.6.1.6"],
       [k |-> "fs",     oid |-> "1.3.6.1.4.1.96.100.7.1.6.1.7"] >>

PTP_STATUS_OID == "1.3.6.1.4.1.96.100.6.2.2.1.0"
PTP_IDS_OIDS ==
    << [k |-> "port",        oid |-> "1.3.6.1.4.1.96.100.7.5.1.2.1"],
       [k |-> "grandmaster", oid |-> "1.3.6.1.4.1.96.100.7.5.1.3.1"],
       [k |-> "servoState",  oid |-> "1.3.6.1.4.1.96.100.7.5.1.6.1"] >>
PTP_PERF_OIDS ==
    << [k |-> "delayCoefficient", oid |-> "1.3.6.1.4.1.96.100.7.5.1.31.1"] >>

PLL_STATUS_OID == "1.3.6.1.4.1.96.100.6.2.2.2.0"
PLL_INFO_OIDS ==
    << [k |-> "mode",       oid |-> "1.3.6.1.4.1.96.100.7.3.2.1.0"],
       [k |-> "seqState",   oid |-> "1.3.6.1.4.1.96.100.7.3.2.3.0"],
       [k |-> "alignState", oid |-> "1.3.6.1.4.1.96.100.7.3.2.4.0"] >>

SLAVE_STATUS_OID == "1.3.6.1.4.1.96.100.6.2.2.3.0"
PTPFRAMES_STATUS_OID == "1.3.6.1.4.1.96.100.6.2.2.4.0"
SYSTEMCLOCK_STATUS_OID == "1.3.6.1.4.1.96.100.6.2.2.5.0"

SFP_STATUS_OID == "1.3.6.1.4.1.96.100.6.2.3.1.0"
PORT_TABLE_OIDS ==
    << [k |-> "index",    oid |-> "1.3.6.1.4.1.96.100.7.6.1.1"],
       [k |-> "name",     oid |-> "1.3.6.1.4.1.96.100.7.6.1.2"],
       [k |-> "link",     oid |-> "1.3.6.1.4.1.96.100.7.6.1.3"],
       [k |-> "vendor",   oid |-> "1.3.6.1.4.1.96.100.7.6.1.7"],
       [k |-> "sfpError", oid |-> "1.3.6.1.4.1.96.100.7.6.1.12"],
       [k |-> "temp",     oid |-> "1.3.6.1.4.1.96.100.7.6.1.17"],
       [k |-> "txPower",  oid |-> "1.3.6.1.4.1.96.100.7.6.1.20"],
       [k |-> "rxPower",  oid |-> "1.3.6.1.4.1.96.100.7.6.1.21"] >>

ENDPOINT_STATUS_OID == "1.3.6.1.4.1.96.100.6.2.3.2.0"
SWCORE_STATUS_OID == "1.3.6.1.4.1.96.100.6.2.3.3.0"
RTU_STATUS_OID == "1.3.6.1.4.1.96.100.6.2.3.4.0"

\* d[key] for a dictionary kept as a sequence of [k, oid] entries
OidOf(d, key) == d[CHOOSE i \in 1..Len(d) : d[i].k = key].oid

(***************************************************************************)
(* Label maps of the SFP check                                             *)
(***************************************************************************)
SFP_STATUS_MAP ==
    (0 :> "N/A") @@ (1 :> "OK") @@ (2 :> "Error") @@ (3 :> "Warning")
    @@ (4 :> "Warning/N.A.") @@ (5 :> "Bug")

SFP_ERROR_MAP ==
    (0 :> "N/A") @@ (1 :> "sfpOk") @@ (2 :> "sfpError") @@ (3 :> "portDown")

LINK_MAP == (0 :> "N/A") @@ (1 :> "down") @@ (2 :> "up")

(***************************************************************************)
(* Status maps: status code -> (exit code, message)                        *)
(***************************************************************************)
St(c, m) == [code |-> c, msg |-> <<m>>]

\* GENERIC_STATUS_MAP without its entry for code 5
GENERIC_STATUS_MAP_No5 ==
    (1 :> St(0, "OK")) @@ (2 :> St(2, "CRITICAL")) @@ (3 :> St(1, "WARNING"))
    @@ (4 :> St(1, "WARNING"))

GENERIC_STATUS_MAP ==
    (1 :> St(0, "OK")) @@ (2 :> St(2, "CRITICAL")) @@ (3 :> St(1, "WARNING"))
    @@ (4 :> St(1, "WARNING")) @@ (5 :> St(2, "CRITICAL"))

TEMP_STATUS_MAP ==
    (1 :> St(3, "UNKNOWN - threshold not set"))
    @@ (2 :> St(0, "OK: Temperature normal"))
    @@ (3 :> St(2, "CRITICAL: Temperature too high"))

MEM_STATUS_MAP ==
    (1 :> St(0, "OK: Memory OK")) @@ (2 :> St(2, "CRITICAL: Memory error"))
    @@ (3 :> St(1, "WARNING: Memory warning")) @@ (4 :> St(1, "WARNING: Memory N/A"))

DISK_STATUS_MAP ==
    (1 :> St(0, "OK: Disk space OK")) @@ (2 :> St(2, "CRITICAL: Disk space error"))
    @@ (3 :> St(1, "WARNING: Disk space warning"))
    @@ (4 :> St(1, "WARNING: Disk space N/A"))

PTP_STATUS_MAP ==
    (0 :> St(3, "N/A")) @@ (1 :> St(0, "OK")) @@ (2 :> St(2, "CRITICAL"))
    @@ (6 :> St(1, "WARNING: First read"))

SLAVE_STATUS_MAP ==
    (0 :> St(3, "N/A")) @@ (1 :> St(0, "OK")) @@ (2 :> St(2, "CRITICAL"))
    @@ (4 :> St(1, "WARNING (N/A)"))

PTPFRAMES_STATUS_MAP ==
    (0 :> St(3, "N/A")) @@ (1 :> St(0, "OK")) @@ (2 :> St(2, "CRITICAL"))
    @@ (4 :> St(1, "WARNING (N/A)")) @@ (6 :> St(1, "WARNING: First read"))

SYSTEMCLOCK_STATUS_MAP ==
    (0 :> St(3, "N/A")) @@ (1 :> St(0, "OK")) @@ (2 :> St(2, "CRITICAL"))
    @@ (3 :> St(1, "WARNING")) @@ (4 :> St(1, "WARNING (N/A)"))

PLL_STATUS_MAP ==
    (0 :> St(3, "N/A")) @@ (1 :> St(0, "OK")) @@ (2 :> St(2, "CRITICAL"))
    @@ (3 :> St(1, "WARNING")) @@ (4 :> St(1, "WARNING/N.A.")) @@ (5 :> St(2, "BUG"))

ENDPOINT_STATUS_MAP ==
    (0 :> St(3, "N/A")) @@ (1 :> St(0, "OK")) @@ (2 :> St(2, "CRITICAL"))
    @@ (6 :> St(1, "WARNING: First read"))

SWCORE_STATUS_MAP ==
    (0 :> St(3, "N/A")) @@ (1 :> St(0, "OK")) @@ (2 :> St(2, "CRITICAL"))
    @@ (6 :> St(1, "WARNING: First read"))

RTU_STATUS_MAP ==
    (0 :> St(3, "N/A")) @@ (1 :> St(0, "OK")) @@ (2 :> St(2, "CRITICAL"))
    @@ (6 :> St(1, "WARNING: First read"))

(***************************************************************************)
(* Values returned by the device, and Python's conversions of them         *)
(***************************************************************************)
StatusCodes == (-1 .. MaxStatus) \cup {BigStatus}
IntRange == StatusCodes \cup (0 .. MaxReading)

\* a response that is no decimal number
NonNumeric == "abc"
\* a response that float() accepts and int() rejects
Decimal == "0.5"

\* the decimal strings int() parses, with the number each one denotes
Decimals == [s \in {ToString(n) : n \in IntRange} |-> CHOOSE n \in IntRange : ToString(n) = s]
\* int(raw) succeeds
IsInt(raw) == raw \in DOMAIN Decimals
\* int(raw)
IntOf(raw) == Decimals[raw]
\* float(raw) succeeds
IsFloat(raw) == IsInt(raw) \/ raw = Decimal
\* f'{float(raw)}': the repr of a float always shows a fractional part
FloatStr(raw) == IF IsInt(raw) THEN raw \o ".0" ELSE raw
\* f'{n}' for an int n
Str(n) == ToString(n)

\* str.upper() on the names of the generic modes
Upper(m) ==
    CASE m = "os" -> "OS" [] m = "main" -> "MAIN"
      [] m = "timing" -> "TIMING" [] m = "net" -> "NET"

\* dict.get(key, default)
Get(map, key, default) == IF key \in DOMAIN map THEN map[key] ELSE default

\* sep.join(parts) where every part is a sequence of string pieces
RECURSIVE Join(_, _)
Join(parts, sep) ==
    IF parts = <<>> THEN <<>>
    ELSE IF Len(parts) = 1 THEN parts[1]
    ELSE parts[1] \o <<sep>> \o Join(Tail(parts), sep)

(***************************************************************************)
(* str.strip on a string given as its sequence of characters               *)
(***************************************************************************)
Whitespace == {" "}
Quote == {"\""}

RECURSIVE lstrip(_, _)
lstrip(s, cs) == IF s # <<>> /\ Head(s) \in cs THEN lstrip(Tail(s), cs) ELSE s

RECURSIVE rstrip(_, _)
rstrip(s, cs) ==
    IF s # <<>> /\ s[Len(s)] \in cs THEN rstrip(SubSeq(s, 1, Len(s) - 1), cs) ELSE s

strip(s, cs) == rstrip(lstrip(s, cs), cs)

(***************************************************************************)
(* format_octetstring                                                      *)
(***************************************************************************)
HexDigits == <<"0", "1", "2", "3", "4", "5", "6", "7",
               "8", "9", "A", "B", "C", "D", "E", "F">>

\* f'{b:02X}' for a byte b
Hex02X(b) == HexDigits[(b \div 16) + 1] \o HexDigits[(b % 16) + 1]

RECURSIVE JoinStr(_, _)
JoinStr(strs, sep) ==
    IF strs = <<>> THEN ""
    ELSE IF Len(strs) = 1 THEN strs[1]
    ELSE strs[1] \o sep \o JoinStr(Tail(strs), sep)

\* format_octetstring_hexs without the test of the length
format_octetstring_hexs_AnyLength(raw) ==
    LET hexs == [i \in 1..Len(raw) |-> Hex02X(raw[i])]
    IN  IF Len(hexs) >= 5 /\ SubSeq(hexs, 4, 5) = <<"FF", "FE">>
        THEN SubSeq(hexs, 1, 3) \o SubSeq(hexs, 6, Len(hexs))
        ELSE hexs

\* the list hexs that format_octetstring joins
format_octetstring_hexs(raw) ==
    LET hexs == [i \in 1..Len(raw) |-> Hex02X(raw[i])]
    IN  IF Len(hexs) = 8 /\ SubSeq(hexs, 4, 5) = <<"FF", "FE">>
        THEN SubSeq(hexs, 1, 3) \o SubSeq(hexs, 6, Len(hexs))
        ELSE hexs

format_octetstring(raw) == JoinStr(format_octetstring_hexs(raw), ":")

(***************************************************************************)
(* main: the check modes and the branch each one takes                     *)
(***************************************************************************)
Modes == {"cpu", "os", "main", "timing", "net", "temp", "mem", "disk",
          "ptp", "pll", "slave", "ptpframes", "systemclock", "sfp",
          "endpoint", "swcore", "rtu"}

\* a branch of main that fetches one status scalar and prints its message
Scalar(ms, o, m, u, t) ==
    [modes |-> ms, kind |-> "scalar", oid |-> o, map |-> m, unk |-> u, tail |-> t]
\* any other branch of main
Other(ms, kd) ==
    [modes |-> ms, kind |-> kd, oid |-> "", map |-> <<>>, unk |-> "", tail |-> ""]

\* the if statements of main, in source order
Branches ==
    << Other({"cpu"}, "cpu"),
       Other({"os", "main", "timing", "net"}, "generic"),
       Other({"temp"}, "temp"),
       Other({"mem"}, "mem"),
       Other({"disk"}, "disk"),
       Other({"ptp"}, "ptp"),
       Scalar({"ptpframes"}, PTPFRAMES_STATUS_OID, PTP_STATUS_MAP,
              "UNKNOWN PTP Frames status ", ": PTP Frames status"),
       Scalar({"pll"}, PLL_STATUS_OID, PLL_STATUS_MAP,
              "UNKNOWN PLL status ", ": PLL status"),
       Scalar({"slave"}, SLAVE_STATUS_OID, SLAVE_STATUS_MAP,
              "UNKNOWN slave status ", ": Slave link status"),
       Scalar({"ptpframes"}, PTPFRAMES_STATUS_OID, PTPFRAMES_STATUS_MAP,
              "UNKNOWN PTP frames status ", ": PTP frames flowing"),
       Scalar({"systemclock"}, SYSTEMCLOCK_STATUS_OID, SYSTEMCLOCK_STATUS_MAP,
              "UNKNOWN system clock status ", ": System clock status"),
       Other({"sfp"}, "sfp"),
       Scalar({"endpoint"}, ENDPOINT_STATUS_OID, ENDPOINT_STATUS_MAP,
              "UNKNOWN endpoint status ", ": Endpoint status"),
       Scalar({"swcore"}, SWCORE_STATUS_OID, SWCORE_STATUS_MAP,
              "UNKNOWN Soft Core status ", ": Soft Core status"),
       Scalar({"rtu"}, RTU_STATUS_OID, RTU_STATUS_MAP,
              "UNKNOWN RTU status ", ": RTU status") >>

\* every branch ends in sys.exit, so a mode runs the first branch that tests for it
Dispatch ==
    [m \in Modes |->
        Branches[CHOOSE i \in 1..Len(Branches) :
                    /\ m \in Branches[i].modes
                    /\ \A j \in 1..(i - 1) : m \notin Branches[j].modes]]

BranchOf(m) == Dispatch[m]

KindOf(m) == BranchOf(m).kind

\* the status address of the generic modes
GENERIC_OIDS ==
    [m \in {"os", "main", "timing", "net"} |->
        CASE m = "os" -> OS_STATUS_OID [] m = "main" -> MAIN_STATUS_OID
          [] m = "timing" -> TIMING_STATUS_OID [] m = "net" -> NET_STATUS_OID]

(***************************************************************************)
(* The remote operations of a mode, in the order the code performs them.   *)
(* conv is the conversion applied to the value as soon as it is returned.  *)
(***************************************************************************)
G(o, c, d) == [op |-> "get", oid |-> o, conv |-> c, dom |-> d]
W(o, c, d) == [op |-> "walk", oid |-> o, conv |-> c, dom |-> d]

\* a dict comprehension over the entries of d
Gets(d, c, dm) == [i \in 1..Len(d) |-> G(d[i].oid, c, dm)]

PlanOf(m) ==
    CASE KindOf(m) = "cpu" ->
            <<G(CPU_STATUS_OID, "int", "status")>>
            \o Gets(CPU_NUMERIC_OIDS, "float", "load")
      [] KindOf(m) = "generic" -> <<G(GENERIC_OIDS[m], "int", "status")>>
      [] KindOf(m) = "temp" ->
            <<G(TEMP_STATUS_OID, "int", "status")>>
            \o Gets(TEMP_VALUE_OIDS, "int", "reading")
            \o Gets(TEMP_THRESH_OIDS, "int", "threshold")
      [] KindOf(m) = "mem" ->
            <<G(MEM_STATUS_OID, "int", "status")>>
            \o Gets(MEM_VALUE_OIDS, "int", "reading")
      [] KindOf(m) = "disk" ->
            << G(DISK_STATUS_OID, "int", "status"),
               W(OidOf(DISK_TABLE, "mount"), "raw", "mounts"),
               W(OidOf(DISK_TABLE, "used"), "ints", "used") >>
      [] KindOf(m) = "ptp" ->
            << G(PTP_STATUS_OID, "int", "status"),
               G(PTP_IDS_OIDS[1].oid, "raw", "port"),
               G(PTP_IDS_OIDS[2].oid, "raw", "gm"),
               G(PTP_IDS_OIDS[3].oid, "raw", "servo") >>
            \o Gets(PTP_PERF_OIDS, "raw", "delay")
      [] KindOf(m) = "scalar" -> <<G(BranchOf(m).oid, "int", "status")>>
      [] KindOf(m) = "sfp" ->
            << G(SFP_STATUS_OID, "int", "status"),
               W(OidOf(PORT_TABLE_OIDS, "name"), "raw", "names"),
               W(OidOf(PORT_TABLE_OIDS, "sfpError"), "raw", "errs"),
               W(OidOf(PORT_TABLE_OIDS, "vendor"), "raw", "vendor"),
               W(OidOf(PORT_TABLE_OIDS, "link"), "raw", "links"),
               W(OidOf(PORT_TABLE_OIDS, "temp"), "raw", "temps"),
               W(OidOf(PORT_TABLE_OIDS, "txPower"), "raw", "power"),
               W(OidOf(PORT_TABLE_OIDS, "rxPower"), "raw", "power") >>

\* Plans with the pll branch fetching the addresses of PLL_INFO_OIDS as well
Plans_PllInfo ==
    [m \in Modes |->
        IF m = "pll"
        THEN <<G(PLL_STATUS_OID, "int", "status")>> \o Gets(PLL_INFO_OIDS, "raw", "port")
        ELSE PlanOf(m)]

Plans == [m \in Modes |-> PlanOf(m)]
Plan(m) == Plans[m]

(***************************************************************************)
(* What the device may answer                                              *)
(***************************************************************************)
StatusRaw == {Str(n) : n \in StatusCodes} \cup {NonNumeric}
ReadingRaw == {Str(n) : n \in 1..MaxReading} \cup {NonNumeric}
ThresholdRaw == {Str(1), Str(2), NonNumeric}
LoadRaw == {"1", Decimal, NonNumeric}

\* an EUI-64 clock identity built from a MAC, and a plain 6-byte MAC
GmRaw == { <<0, 27, 192, 255, 254, 10, 11, 12>>, <<0, 27, 192, 10, 11, 12>> }

\* vendor names as snmp_walk returns them: "" (empty slot), " " and "A" in quotes
VendorRaw == { <<"\"", "\"">>, <<"\"", " ", "\"">>, <<"\"", "A", "\"">> }

PortName(i) == "wri" \o Str(i)
MountName(i) == "/mnt" \o Str(i)

ScalarDom(d) ==
    CASE d = "status" -> StatusRaw
      [] d = "reading" -> ReadingRaw
      [] d = "threshold" -> ThresholdRaw
      [] d = "load" -> LoadRaw
      [] d = "port" -> {"1"}
      [] d = "gm" -> GmRaw
      [] d = "servo" -> {"TRACK_PHASE"}
      [] d = "delay" -> {"0"}

\* The first column walked has 0..MaxRows entries.  A later column has as many
\* entries, or one fewer or one more when every column walked before it has
\* as many as the first.
ColLens(walked) ==
    IF walked = <<>> THEN 0..MaxRows
    ELSE LET n == Len(walked[1])
         IN  {n} \cup (IF \A j \in 1..Len(walked) : Len(walked[j]) = n
                       THEN {k \in {n - 1, n + 1} : k \in 0..MaxRows} ELSE {})
Cols(S, walked) == UNION {[1..k -> S] : k \in ColLens(walked)}

\* a column of readings "2", the last of which may be no number
TempCols(walked) ==
    UNION {{[i \in 1..k |-> "2"], [i \in 1..k |-> IF i = k THEN NonNumeric ELSE "2"]}
           : k \in ColLens(walked)}

\* walked holds the columns walked before this one
ColumnDom(d, walked) ==
    CASE d = "names" -> {[i \in 1..k |-> PortName(i)] : k \in ColLens(walked)}
      [] d = "mounts" -> {[i \in 1..k |-> MountName(i)] : k \in ColLens(walked)}
      [] d = "errs" -> Cols({"1", "2"}, walked)
      [] d = "links" -> Cols({"2", "1"}, walked)
      [] d = "vendor" -> Cols(VendorRaw, walked)
      [] d = "temps" -> TempCols(walked)
      [] d = "power" -> Cols({"1"}, walked)
      [] d = "used" -> Cols({"1", NonNumeric}, walked)

(***************************************************************************)
(* State                                                                   *)
(***************************************************************************)
VARIABLES
    mode,       \* args.mode
    pc,         \* "run" until the process has exited, then "done"
    vals,       \* the values fetched so far, in fetch order
    ops,        \* the addresses of the remote operations performed so far
    stdout,     \* the lines printed to standard output
    stderr,     \* the tracebacks of uncaught exceptions
    exitcode,   \* the exit status of the process, -1 while it runs
    fmt_raw,    \* the argument of a call of format_octetstring
    fmt_out     \* the result of that call: [hexs, text]

vars == <<mode, pc, vals, ops, stdout, stderr, exitcode, fmt_raw, fmt_out>>

NoCall == [called |-> FALSE, hexs |-> <<>>, text |-> ""]

Init ==
    /\ mode \in Modes
    /\ pc = "run"
    /\ vals = <<>>
    /\ ops = <<>>
    /\ stdout = <<>>
    /\ stderr = <<>>
    /\ exitcode = -1
    /\ fmt_raw = <<>>
    /\ fmt_out = NoCall

\* the next remote operation of the running mode
Fetching == pc = "run" /\ Len(vals) < Len(Plan(mode))
Cur == Plan(mode)[Len(vals) + 1]
\* every remote operation of the mode has returned
Fetched == pc = "run" /\ Len(vals) = Len(Plan(mode))

\* print(line); sys.exit(code)
Exit(line, code) ==
    /\ stdout' = Append(stdout, line)
    /\ exitcode' = code
    /\ pc' = "done"
    /\ UNCHANGED <<mode, stderr, fmt_raw, fmt_out>>

\* an uncaught exception: the interpreter prints the traceback to standard
\* error and exits with status 1
Raise(exc) ==
    /\ stderr' = Append(stderr, exc)
    /\ exitcode' = 1
    /\ pc' = "done"
    /\ UNCHANGED <<mode, stdout, fmt_raw, fmt_out>>

\* the conversion conv accepts the returned value v
Converts(conv, v) ==
    CASE conv = "int" -> IsInt(v)
      [] conv = "float" -> IsFloat(v)
      [] conv = "ints" -> \A i \in 1..Len(v) : IsInt(v[i])
      [] conv = "raw" -> TRUE

\* the ValueError that int() or float() raises on the value it rejects
ValueError(conv, v) ==
    CASE conv = "int" -> <<"ValueError: invalid literal for int() with base 10: ", v>>
      [] conv = "float" -> <<"ValueError: could not convert string to float: ", v>>
      [] conv = "ints" ->
            << "ValueError: invalid literal for int() with base 10: ",
               v[CHOOSE i \in 1..Len(v) :
                    ~IsInt(v[i]) /\ \A j \in 1..(i - 1) : IsInt(v[j])] >>

\* snmp_get returns a value
snmp_get ==
    /\ Fetching /\ Cur.op = "get"
    /\ ops' = Append(ops, Cur.oid)
    /\ \E v \in ScalarDom(Cur.dom) :
         IF Converts(Cur.conv, v)
         THEN /\ vals' = Append(vals, v)
              /\ UNCHANGED <<mode, pc, stdout, stderr, exitcode, fmt_raw, fmt_out>>
         ELSE /\ Raise(ValueError(Cur.conv, v))
              /\ UNCHANGED vals

\* snmp_get gets no value: result is None or result[0] is None
snmp_get_failed ==
    /\ Fetching /\ Cur.op = "get"
    /\ ops' = Append(ops, Cur.oid)
    /\ Exit(<<"UNKNOWN - SNMP GET failed for ", Cur.oid>>, 3)
    /\ UNCHANGED vals

\* snmp_walk returns the column
snmp_walk ==
    /\ Fetching /\ Cur.op = "walk"
    /\ ops' = Append(ops, Cur.oid)
    /\ \E v \in ColumnDom(Cur.dom, Tail(vals)) :
         IF Converts(Cur.conv, v)
         THEN /\ vals' = Append(vals, v)
              /\ UNCHANGED <<mode, pc, stdout, stderr, exitcode, fmt_raw, fmt_out>>
         ELSE /\ Raise(ValueError(Cur.conv, v))
              /\ UNCHANGED vals

\* snmpwalk fails: the except clause of snmp_walk
snmp_walk_failed ==
    /\ Fetching /\ Cur.op = "walk"
    /\ ops' = Append(ops, Cur.oid)
    /\ Exit(<<"UNKNOWN - SNMP WALK failed for ", Cur.oid, ": ", "CalledProcessError">>, 3)
    /\ UNCHANGED vals

(***************************************************************************)
(* The values a branch has fetched, by the names the code gives them       *)
(***************************************************************************)
status_val == IntOf(vals[1])

\* Resolve with a default label that leaves out the raw code
Resolve_NoCode(map, val, unk) == Get(map, val, [code |-> 3, msg |-> <<unk>>])

\* map.get(val, (3, f'<unk>{val}'))
Resolve(map, val, unk) == Get(map, val, [code |-> 3, msg |-> <<unk, Str(val)>>])

\* the positions of the sequence of booleans flags that hold TRUE, in order
Where(flags) == SelectSeq([i \in 1..Len(flags) |-> i], LAMBDA i : flags[i])

\* ' '.join(entries)
Perf(entries) == Join(entries, " ")

(***************************************************************************)
(* main, cpu branch                                                        *)
(***************************************************************************)
cpu_exit_code(val) == Get((1 :> 0) @@ (2 :> 2) @@ (3 :> 1), val, 3)
cpu_status_str(exit_code) == <<"OK", "WARNING", "CRITICAL", "UNKNOWN">>[exit_code + 1]

cpu_line ==
    LET numeric_vals == [i \in 1..3 |-> FloatStr(vals[1 + i])]
        perfdata == Perf([i \in 1..3 |-> <<CPU_NUMERIC_OIDS[i].k, "=", numeric_vals[i]>>])
    IN  << cpu_status_str(cpu_exit_code(status_val)), ": CPU Load ",
           numeric_vals[1], "/", numeric_vals[2], "/", numeric_vals[3], " | " >>
        \o perfdata

main_cpu ==
    /\ Fetched /\ KindOf(mode) = "cpu"
    /\ Exit(cpu_line, cpu_exit_code(status_val))
    /\ UNCHANGED <<vals, ops>>

(***************************************************************************)
(* main, os / main / timing / net branch                                   *)
(***************************************************************************)
generic_resolved == Resolve(GENERIC_STATUS_MAP, status_val, "UNKNOWN: ")

generic_line == generic_resolved.msg \o <<": ", Upper(mode), " status">>

main_generic ==
    /\ Fetched /\ KindOf(mode) = "generic"
    /\ Exit(generic_line, generic_resolved.code)
    /\ UNCHANGED <<vals, ops>>

(***************************************************************************)
(* main, temp branch                                                       *)
(***************************************************************************)
temp_resolved == Resolve(TEMP_STATUS_MAP, status_val, "UNKNOWN Temp status ")

temps(i) == IntOf(vals[1 + i])
thresholds(i) == IntOf(vals[1 + Len(TEMP_VALUE_OIDS) + i])

\* temp_over with >= for >
temp_over_OrEqual(i) == temps(i) >= thresholds(i)

\* problems = [k for k in temps if temps[k] > thresholds[k]], as positions
temp_over(i) == temps(i) > thresholds(i)
temp_problems == Where([i \in 1..Len(TEMP_VALUE_OIDS) |-> temp_over(i)])

temp_result ==
    LET names == [i \in 1..Len(temp_problems) |-> <<TEMP_VALUE_OIDS[temp_problems[i]].k>>]
    IN  IF temp_problems # <<>>
        THEN [code |-> 2, msg |-> <<"'CRITICAL: Overheating in ">> \o Join(names, ",")]
        ELSE temp_resolved

temp_perf ==
    Perf([i \in 1..Len(TEMP_VALUE_OIDS) |->
            << TEMP_VALUE_OIDS[i].k, "=", Str(temps(i)), ";",
               Str(thresholds(i)), ";", Str(thresholds(i)), ";0;" >>])

temp_line == temp_result.msg \o <<" | ">> \o temp_perf

main_temp ==
    /\ Fetched /\ KindOf(mode) = "temp"
    /\ Exit(temp_line, temp_result.code)
    /\ UNCHANGED <<vals, ops>>

(***************************************************************************)
(* main, mem branch                                                        *)
(***************************************************************************)
mem_resolved == Resolve(MEM_STATUS_MAP, status_val, "UNKNOWN Memory status ")

\* memvals[key]
memvals(key) ==
    Str(IntOf(vals[1 + CHOOSE i \in 1..Len(MEM_VALUE_OIDS) : MEM_VALUE_OIDS[i].k = key]))

mem_line ==
    mem_resolved.msg
    \o << ": Used ", memvals("used"), " / ", memvals("total"),
          " (", memvals("usedPerc"), "%)", " | " >>
    \o Perf([i \in 1..Len(MEM_VALUE_OIDS) |->
                <<MEM_VALUE_OIDS[i].k, "=", memvals(MEM_VALUE_OIDS[i].k)>>])

main_mem ==
    /\ Fetched /\ KindOf(mode) = "mem"
    /\ Exit(mem_line, mem_resolved.code)
    /\ UNCHANGED <<vals, ops>>

(***************************************************************************)
(* main, disk branch                                                       *)
(***************************************************************************)
disk_resolved == Resolve(DISK_STATUS_MAP, status_val, "UNKNOWN Disk status ")

Min(a, b) == IF a <= b THEN a ELSE b

\* disk_line with the usage column padded with 0 up to the mount column
disk_line_Padded ==
    LET mounts == vals[2]
        used == [i \in 1..Len(mounts) |->
                    IF i <= Len(vals[3]) THEN IntOf(vals[3][i]) ELSE 0]
        perf == Perf([i \in 1..Len(mounts) |->
                        <<mounts[i], "_used=", Str(used[i])>>])
    IN  disk_resolved.msg \o <<": Mounts ">>
        \o Join([i \in 1..Len(mounts) |-> <<mounts[i]>>], ", ")
        \o <<" | ">> \o perf

disk_line ==
    LET mounts == vals[2]
        used == [i \in 1..Len(vals[3]) |-> IntOf(vals[3][i])]
        \* zip(mounts, used) stops at the shorter of the two
        perf == Perf([i \in 1..Min(Len(mounts), Len(used)) |->
                        <<mounts[i], "_used=", Str(used[i])>>])
    IN  disk_resolved.msg \o <<": Mounts ">>
        \o Join([i \in 1..Len(mounts) |-> <<mounts[i]>>], ", ")
        \o <<" | ">> \o perf

main_disk ==
    /\ Fetched /\ KindOf(mode) = "disk"
    /\ Exit(disk_line, disk_resolved.code)
    /\ UNCHANGED <<vals, ops>>

(***************************************************************************)
(* main, ptp branch                                                        *)
(***************************************************************************)
ptp_resolved == Resolve(PTP_STATUS_MAP, status_val, "UNKNOWN PTP status ")

ptp_line ==
    ptp_resolved.msg
    \o << ": Port=", vals[2], ", GM=", format_octetstring(vals[3]),
          ", Servo=", vals[4], " | " >>
    \o Perf([i \in 1..Len(PTP_PERF_OIDS) |-> <<PTP_PERF_OIDS[i].k, "=", vals[4 + i]>>])

main_ptp ==
    /\ Fetched /\ KindOf(mode) = "ptp"
    /\ Exit(ptp_line, ptp_resolved.code)
    /\ UNCHANGED <<vals, ops>>

(***************************************************************************)
(* main, the branches that fetch the status scalar only: ptpframes, pll,   *)
(* slave, systemclock, endpoint, swcore, rtu                               *)
(***************************************************************************)
scalar_resolved == Resolve(BranchOf(mode).map, status_val, BranchOf(mode).unk)

scalar_line == scalar_resolved.msg \o <<BranchOf(mode).tail>>

main_scalar ==
    /\ Fetched /\ KindOf(mode) = "scalar"
    /\ Exit(scalar_line, scalar_resolved.code)
    /\ UNCHANGED <<vals, ops>>

(***************************************************************************)
(* check_sfp                                                               *)
(***************************************************************************)
port_names == vals[2]
port_errors == vals[3]
port_vendor == vals[4]
port_links == vals[5]
port_temps == vals[6]
port_txpwrs == vals[7]
port_rxpwrs == vals[8]

sfp_status_str ==
    IF status_val \in DOMAIN SFP_STATUS_MAP
    THEN <<SFP_STATUS_MAP[status_val]>>
    ELSE <<"Unknown(", Str(status_val), ")">>

\* port_vendor[i] if i < len(port_vendor) else ''
vendor_val(i) == IF i <= Len(port_vendor) THEN port_vendor[i] ELSE <<>>

\* not vendor_val.strip().strip('"'): the row is skipped
sfp_skipped(i) == strip(strip(vendor_val(i), Whitespace), Quote) = <<>>

\* int(col[i]) raises ValueError
sfp_bad(col, i) == i <= Len(col) /\ ~IsInt(col[i])

\* the columns of a row in the order the loop body converts them
sfp_int_columns == <<port_errors, port_links, port_temps, port_txpwrs, port_rxpwrs>>

\* the loop body raises at row i
sfp_row_raises(i) ==
    /\ ~sfp_skipped(i)
    /\ \E c \in 1..Len(sfp_int_columns) : sfp_bad(sfp_int_columns[c], i)

\* the value on which the loop raises: the first one in row and column order
sfp_raised ==
    LET i == CHOOSE r \in 1..Len(port_names) :
                sfp_row_raises(r) /\ \A q \in 1..(r - 1) : ~sfp_row_raises(q)
        c == CHOOSE d \in 1..Len(sfp_int_columns) :
                /\ sfp_bad(sfp_int_columns[d], i)
                /\ \A e \in 1..(d - 1) : ~sfp_bad(sfp_int_columns[e], i)
    IN  ValueError("int", sfp_int_columns[c][i])

\* int(col[i]) if i < len(col) else 0
sfp_field(col, i) == IF i <= Len(col) THEN IntOf(col[i]) ELSE 0

\* sfp_is_problem with and for or
sfp_is_problem_Both(i) == sfp_field(port_errors, i) # 1 /\ sfp_field(port_links, i) # 2

\* err != 1 or link != 2
sfp_is_problem(i) == sfp_field(port_errors, i) # 1 \/ sfp_field(port_links, i) # 2

\* the rows the loop does not skip
sfp_rows == Where([i \in 1..Len(port_names) |-> ~sfp_skipped(i)])

\* the rows appended to problems
sfp_problem_rows ==
    SelectSeq(sfp_rows, LAMBDA i : sfp_is_problem(i))

\* f'{name}: {err_str}, link={link_str}'
sfp_problem(i) ==
    LET err == sfp_field(port_errors, i)
        link == sfp_field(port_links, i)
        err_str == IF err \in DOMAIN SFP_ERROR_MAP THEN <<SFP_ERROR_MAP[err]>>
                   ELSE <<"Unknown(", Str(err), ")">>
        link_str == IF link \in DOMAIN LINK_MAP THEN <<LINK_MAP[link]>>
                    ELSE <<"Unknown(", Str(link), ")">>
    IN  <<port_names[i], ": ">> \o err_str \o <<", link=">> \o link_str

sfp_problems == [j \in 1..Len(sfp_problem_rows) |-> sfp_problem(sfp_problem_rows[j])]

\* the three perfdata entries of row i
sfp_row_perf(i) ==
    << <<port_names[i], "_temp=", Str(sfp_field(port_temps, i))>>,
       <<port_names[i], "_txPower=", Str(sfp_field(port_txpwrs, i))>>,
       <<port_names[i], "_rxPower=", Str(sfp_field(port_rxpwrs, i))>> >>

RECURSIVE Concat(_)
Concat(ss) == IF ss = <<>> THEN <<>> ELSE Head(ss) \o Concat(Tail(ss))

\* sfp_perfdata with the entries appended before the problem test is skipped:
\* a problem row gets no entries
sfp_perfdata_HealthyOnly ==
    LET healthy == SelectSeq(sfp_rows, LAMBDA i : ~sfp_is_problem(i))
    IN  Concat([j \in 1..Len(healthy) |-> sfp_row_perf(healthy[j])])

sfp_perfdata == Concat([j \in 1..Len(sfp_rows) |-> sfp_row_perf(sfp_rows[j])])

sfp_ok == status_val = 1 /\ sfp_problems = <<>>

\* sfp_exitcode with the problem rows raising the severity to CRITICAL
sfp_exitcode_ByRows ==
    IF sfp_ok THEN 0 ELSE IF status_val = 2 \/ sfp_problems # <<>> THEN 2 ELSE 1

sfp_exitcode == IF sfp_ok THEN 0 ELSE IF status_val = 2 THEN 2 ELSE 1

sfp_line ==
    IF sfp_ok
    THEN <<"OK: All SFPs OK", " | ">> \o Perf(sfp_perfdata)
    ELSE sfp_status_str
         \o (IF sfp_problems # <<>>
             THEN <<": ">> \o Join(sfp_problems, "; ")
             ELSE <<": No detailed problems found">>)
         \o <<" | ">> \o Perf(sfp_perfdata)

check_sfp ==
    /\ Fetched /\ KindOf(mode) = "sfp"
    /\ IF \E i \in 1..Len(port_names) : sfp_row_raises(i)
       THEN Raise(sfp_raised)
       ELSE Exit(sfp_line, sfp_exitcode)
    /\ UNCHANGED <<vals, ops>>

(***************************************************************************)
(* One invocation of main()                                                *)
(***************************************************************************)
Next ==
    \/ snmp_get
    \/ snmp_get_failed
    \/ snmp_walk
    \/ snmp_walk_failed
    \/ main_cpu
    \/ main_generic
    \/ main_temp
    \/ main_mem
    \/ main_disk
    \/ main_ptp
    \/ main_scalar
    \/ check_sfp

Spec == Init /\ [][Next]_vars

(***************************************************************************)
(* format_octetstring as a function of its argument: the payloads are the  *)
(* byte sequences of at most MaxOctets bytes over ByteVals                 *)
(***************************************************************************)
ByteVals == {10, 254, 255}
Payloads == UNION {[1..k -> ByteVals] : k \in 0..MaxOctets}

InitFmt ==
    /\ mode = "ptp"
    /\ pc = "format"
    /\ vals = <<>>
    /\ ops = <<>>
    /\ stdout = <<>>
    /\ stderr = <<>>
    /\ exitcode = -1
    /\ fmt_raw \in Payloads
    /\ fmt_out = NoCall

format_call ==
    /\ pc = "format"
    /\ ~fmt_out.called
    /\ fmt_out' = [called |-> TRUE,
                   hexs |-> format_octetstring_hexs(fmt_raw),
                   text |-> format_octetstring(fmt_raw)]
    /\ UNCHANGED <<mode, pc, vals, ops, stdout, stderr, exitcode, fmt_raw>>

SpecFmt == InitFmt /\ [][format_call]_vars

(***************************************************************************)
(* Vocabulary of the properties                                            *)
(***************************************************************************)
\* the process has exited
Done == pc = "done"
\* the process has exited from the last statement of its branch: every
\* remote operation returned a value and every conversion succeeded
Completed == Done /\ Len(vals) = Len(Plan(mode)) /\ stderr = <<>>
\* the process has exited because a fetch failed or a value was malformed
Failed == Done /\ ~Completed

\* the printed line, when one line was printed
Line == stdout[1]
HasSep(line) == \E i \in 1..Len(line) : line[i] = " | "
SepAt(line) == CHOOSE i \in 1..Len(line) :
                  line[i] = " | " /\ \A j \in 1..(i - 1) : line[j] # " | "
\* the message: the pieces before the performance data separator
MsgOf(line) == IF HasSep(line) THEN SubSeq(line, 1, SepAt(line) - 1) ELSE line
\* the performance data: the pieces after the separator
PerfOf(line) == IF HasSep(line) THEN SubSeq(line, SepAt(line) + 1, Len(line)) ELSE <<>>
\* piece occurs in the sequence of pieces
Has(pieces, piece) == \E i \in 1..Len(pieces) : pieces[i] = piece

\* the status codes each mode's mapping knows
KnownCodes(m) ==
    CASE KindOf(m) = "cpu" -> {1, 2, 3}
      [] KindOf(m) = "generic" -> DOMAIN GENERIC_STATUS_MAP
      [] KindOf(m) = "temp" -> DOMAIN TEMP_STATUS_MAP
      [] KindOf(m) = "mem" -> DOMAIN MEM_STATUS_MAP
      [] KindOf(m) = "disk" -> DOMAIN DISK_STATUS_MAP
      [] KindOf(m) = "ptp" -> DOMAIN PTP_STATUS_MAP
      [] KindOf(m) = "sfp" -> DOMAIN SFP_STATUS_MAP
      [] KindOf(m) = "scalar" -> DOMAIN BranchOf(m).map

\* the rows of the SFP table, read off the walked columns
Padded(col, i) == IF i <= Len(col) THEN IntOf(col[i]) ELSE 0
RowErr(i) == Padded(vals[3], i)
RowLink(i) == Padded(vals[5], i)
\* the vendor field of row i is empty once the surrounding whitespace and then
\* the surrounding quotes are removed: between its first and its last
\* character that is no whitespace, every character is a quote
RowBlank(i) ==
    \/ i > Len(vals[4])
    \/ LET v == vals[4][i]
           inner == {k \in 1..Len(v) : /\ \E a \in 1..k : v[a] \notin Whitespace
                                       /\ \E b \in k..Len(v) : v[b] \notin Whitespace}
       IN  \A k \in inner : v[k] \in Quote
RowProblem(i) == ~RowBlank(i) /\ (RowErr(i) # 1 \/ RowLink(i) # 2)
Rows == [i \in 1..Len(vals[2]) |-> i]
PortNames == {PortName(i) : i \in 1..(MaxRows + 1)}
NamesOf(rows) == [j \in 1..Len(rows) |-> PortName(rows[j])]

(***************************************************************************)
(* C1: every invocation ends having printed exactly one line to standard   *)
(* output, with an exit code in 0..3                                       *)
(***************************************************************************)
C1_OneLineAndExitCode == Done => (Len(stdout) = 1 /\ exitcode \in 0..3)

(***************************************************************************)
(* C2: a failed fetch or a malformed value ends the invocation with exit   *)
(* code 3 and a line that names the address of the failed operation, which *)
(* is the last operation performed                                         *)
(***************************************************************************)
C2_FailureIsUnknown ==
    Failed => /\ exitcode = 3
              /\ Len(stdout) = 1
              /\ Has(Line, ops[Len(ops)])

(***************************************************************************)
(* C3 as stated: in every mode a status code absent from the mode's        *)
(* mapping gives exit code 3 and a message that contains the raw code      *)
(***************************************************************************)
C3_AbsentIsUnknownEverywhere ==
    (Completed /\ status_val \notin KnownCodes(mode)) =>
        (exitcode = 3 /\ Has(MsgOf(Line), Str(status_val)))

(***************************************************************************)
(* C3 as amended: a status code absent from the mode's mapping gives exit  *)
(* code 3 and a message that contains the raw code in every mode but cpu   *)
(* and sfp, and in temp when no reading exceeds its threshold; in cpu the  *)
(* exit code is 3 and the label is "UNKNOWN" without the code; in sfp the  *)
(* label is "Unknown(<code>)" and the exit code is 1                       *)
(***************************************************************************)
C3_AbsentStatus ==
    (Completed /\ status_val \notin KnownCodes(mode)) =>
        CASE KindOf(mode) = "cpu" ->
                /\ exitcode = 3
                /\ Line[1] = "UNKNOWN"
                /\ ~Has(MsgOf(Line), Str(status_val))
          [] KindOf(mode) = "sfp" ->
                /\ exitcode = 1
                /\ SubSeq(Line, 1, 3) = <<"Unknown(", Str(status_val), ")">>
          [] KindOf(mode) = "temp" ->
                \/ exitcode = 3 /\ Has(MsgOf(Line), Str(status_val))
                \/ exitcode = 2 /\ \E i \in 1..4 : IntOf(vals[1 + i]) > IntOf(vals[5 + i])
          [] OTHER -> exitcode = 3 /\ Has(MsgOf(Line), Str(status_val))

\* an sfp run whose rollup status is no code of SFP_STATUS_MAP ends with exit code 1
C3_Witness ==
    /\ Completed /\ mode = "sfp"
    /\ status_val = BigStatus
    /\ exitcode = 1
    /\ Has(MsgOf(Line), Str(BigStatus))

(***************************************************************************)
(* C4 as stated: in the modes os, main, timing and net, code 1 gives exit  *)
(* 0 and "OK", 2 gives exit 2 and "CRITICAL", 3 and 4 give exit 1 and      *)
(* "WARNING", every other code gives exit 3 and "UNKNOWN: <code>"; the     *)
(* line contains the upper-cased mode name                                 *)
(***************************************************************************)
C4_GenericAsStated ==
    (Completed /\ mode \in {"os", "main", "timing", "net"}) =>
        /\ Has(Line, CASE mode = "os" -> "OS" [] mode = "main" -> "MAIN"
                       [] mode = "timing" -> "TIMING" [] mode = "net" -> "NET")
        /\ CASE status_val = 1 -> exitcode = 0 /\ Line[1] = "OK"
             [] status_val = 2 -> exitcode = 2 /\ Line[1] = "CRITICAL"
             [] status_val \in {3, 4} -> exitcode = 1 /\ Line[1] = "WARNING"
             [] OTHER -> /\ exitcode = 3
                         /\ SubSeq(Line, 1, 2) = <<"UNKNOWN: ", Str(status_val)>>

(***************************************************************************)
(* C4 as amended: as stated, except that code 5 gives exit 2 and           *)
(* "CRITICAL" like code 2; every integer other than 1..5 gives exit 3 and  *)
(* "UNKNOWN: <code>"                                                       *)
(***************************************************************************)
C4_Generic ==
    (Completed /\ mode \in {"os", "main", "timing", "net"}) =>
        /\ Has(Line, CASE mode = "os" -> "OS" [] mode = "main" -> "MAIN"
                       [] mode = "timing" -> "TIMING" [] mode = "net" -> "NET")
        /\ CASE status_val = 1 -> exitcode = 0 /\ Line[1] = "OK"
             [] status_val \in {2, 5} -> exitcode = 2 /\ Line[1] = "CRITICAL"
             [] status_val \in {3, 4} -> exitcode = 1 /\ Line[1] = "WARNING"
             [] OTHER -> /\ exitcode = 3
                         /\ SubSeq(Line, 1, 2) = <<"UNKNOWN: ", Str(status_val)>>

\* a generic check of a device that reports status 5
C4_Witness ==
    /\ Completed /\ mode = "net"
    /\ status_val = 5
    /\ exitcode = 2
    /\ Line = <<"CRITICAL", ": ", "NET", " status">>

(***************************************************************************)
(* C5: in a completed sfp check the exit code is 0 iff the rollup status   *)
(* is 1 and no row is a problem; otherwise it is 2 iff the rollup status   *)
(* is 2, and 1 for every other rollup status.  Rollup 2 without problem    *)
(* rows prints "No detailed problems found".                               *)
(***************************************************************************)
C5_SfpExitCode ==
    (Completed /\ mode = "sfp") =>
        LET found == \E i \in 1..Len(vals[2]) : RowProblem(i)
        IN  /\ (exitcode = 0) <=> (status_val = 1 /\ ~found)
            /\ ~(status_val = 1 /\ ~found) =>
                  /\ (exitcode = 2) <=> (status_val = 2)
                  /\ (exitcode = 1) <=> (status_val # 2)
            /\ (status_val = 2 /\ ~found) =>
                  Has(MsgOf(Line), ": No detailed problems found")

\* rollup 2 with one populated, healthy row; and the code is driven by the rollup
C5_Witness ==
    /\ Completed /\ mode = "sfp"
    /\ status_val = 2
    /\ Len(vals[2]) >= 1
    /\ ~RowBlank(1) /\ RowErr(1) = 1 /\ RowLink(1) = 2
    /\ \A i \in 1..Len(vals[2]) : ~RowProblem(i)
    /\ exitcode = 2
    /\ MsgOf(Line) = <<"Error", ": No detailed problems found">>

(***************************************************************************)
(* C6: in a completed temp check, when some reading is strictly greater    *)
(* than its threshold the exit code is 2 and the message names exactly the *)
(* sensors whose reading exceeds its threshold, whatever the baseline      *)
(* status; when none does, the exit code and the message are those the     *)
(* baseline status resolved to                                             *)
(***************************************************************************)
C6_TempThresholds ==
    (Completed /\ mode = "temp") =>
        LET sensor == <<"fpga", "pll", "psl", "psr">>
            over == {i \in 1..4 : IntOf(vals[1 + i]) > IntOf(vals[5 + i])}
            named == SelectSeq(MsgOf(Line), LAMBDA p : p \in {"fpga", "pll", "psl", "psr"})
            expected == SelectSeq(<<1, 2, 3, 4>>, LAMBDA i : i \in over)
        IN  IF over # {}
            THEN /\ exitcode = 2
                 /\ named = [j \in 1..Len(expected) |-> sensor[expected[j]]]
            ELSE /\ exitcode = temp_resolved.code
                 /\ MsgOf(Line) = temp_resolved.msg

\* the baseline is OK (2), fpga and psl are over their thresholds, pll and psr
\* sit exactly on theirs
C6_Witness ==
    /\ Completed /\ mode = "temp"
    /\ status_val = 2
    /\ IntOf(vals[2]) > IntOf(vals[6]) /\ IntOf(vals[4]) > IntOf(vals[8])
    /\ IntOf(vals[3]) = IntOf(vals[7]) /\ IntOf(vals[5]) = IntOf(vals[9])
    /\ exitcode = 2
    /\ MsgOf(Line) = <<"'CRITICAL: Overheating in ", "fpga", ",", "psl">>

(***************************************************************************)
(* C7: in a completed sfp check the rows named in the message are, in      *)
(* row order, exactly the rows whose vendor field is not blank and whose   *)
(* error-state is not 1 or whose link-state is not 2                       *)
(***************************************************************************)
C7_SfpProblemRows ==
    (Completed /\ mode = "sfp") =>
        SelectSeq(MsgOf(Line), LAMBDA p : p \in PortNames)
            = NamesOf(SelectSeq(Rows, LAMBDA i : RowProblem(i)))

\* row 1 has an empty vendor field and an error-state that is not 1; row 2 is
\* populated, its error-state is 1 and its link is down: only row 2 is reported
C7_Witness ==
    /\ Completed /\ mode = "sfp"
    /\ Len(vals[2]) = 2
    /\ RowBlank(1) /\ RowErr(1) # 1
    /\ ~RowBlank(2) /\ RowErr(2) = 1 /\ RowLink(2) = 1
    /\ SelectSeq(MsgOf(Line), LAMBDA p : p \in PortNames) = <<PortName(2)>>

(***************************************************************************)
(* C8: in a completed sfp check the performance data holds, in row order,  *)
(* the three entries temp, txPower, rxPower of every row whose vendor      *)
(* field is not blank, problem or not, and nothing else                    *)
(***************************************************************************)
C8_SfpPerfdata ==
    (Completed /\ mode = "sfp") =>
        LET kept == SelectSeq(Rows, LAMBDA i : ~RowBlank(i))
            perf == PerfOf(Line)
            keys == <<"_temp=", "_txPower=", "_rxPower=">>
        IN  /\ HasSep(Line)
            /\ SelectSeq(perf, LAMBDA p : p \in PortNames)
                 = [j \in 1..(3 * Len(kept)) |-> PortName(kept[((j - 1) \div 3) + 1])]
            /\ SelectSeq(perf, LAMBDA p : p \in {"_temp=", "_txPower=", "_rxPower="})
                 = [j \in 1..(3 * Len(kept)) |-> keys[((j - 1) % 3) + 1]]
            \* entries are name, key, value, joined by single blanks
            /\ Len(perf) = IF kept = <<>> THEN 0 ELSE 4 * 3 * Len(kept) - 1

\* a WARNING exit: row 1 is a problem row, row 2 has a blank vendor field
C8_Witness ==
    /\ Completed /\ mode = "sfp"
    /\ exitcode = 1
    /\ Len(vals[2]) = 2
    /\ RowProblem(1) /\ RowBlank(2)
    /\ Len(PerfOf(Line)) = 11
    /\ SelectSeq(PerfOf(Line), LAMBDA p : p \in PortNames)
         = <<PortName(1), PortName(1), PortName(1)>>

(***************************************************************************)
(* C9: format_octetstring renders one two-digit uppercase hexadecimal      *)
(* group per byte, joined by colons; it removes bytes only from a payload  *)
(* of exactly 8 bytes whose bytes 3 and 4 (0-indexed) are FF, FE, and then *)
(* removes exactly those two                                               *)
(***************************************************************************)
\* the value of every two-digit uppercase hexadecimal group
HexValue ==
    LET digit == ("0" :> 0) @@ ("1" :> 1) @@ ("2" :> 2) @@ ("3" :> 3) @@ ("4" :> 4)
                 @@ ("5" :> 5) @@ ("6" :> 6) @@ ("7" :> 7) @@ ("8" :> 8) @@ ("9" :> 9)
                 @@ ("A" :> 10) @@ ("B" :> 11) @@ ("C" :> 12) @@ ("D" :> 13)
                 @@ ("E" :> 14) @@ ("F" :> 15)
        pairs == (DOMAIN digit) \X (DOMAIN digit)
    IN  [g \in {p[1] \o p[2] : p \in pairs} |->
            LET p == CHOOSE q \in pairs : q[1] \o q[2] = g
            IN  16 * digit[p[1]] + digit[p[2]]]

C9_FormatOctetstring ==
    fmt_out.called =>
        LET raw == fmt_raw
            collapse == Len(raw) = 8 /\ raw[4] = 255 /\ raw[5] = 254
            kept == IF collapse THEN SubSeq(raw, 1, 3) \o SubSeq(raw, 6, 8) ELSE raw
            hexs == fmt_out.hexs
        IN  /\ Len(hexs) = Len(kept)
            /\ \A i \in 1..Len(hexs) :
                  hexs[i] \in DOMAIN HexValue /\ HexValue[hexs[i]] = kept[i]
            /\ Len(fmt_out.text) = IF hexs = <<>> THEN 0 ELSE 3 * Len(hexs) - 1
            /\ fmt_out.text = JoinStr(hexs, ":")

\* an EUI-64 built from a MAC: the padding pair is removed
C9_Witness ==
    /\ fmt_out.called
    /\ fmt_raw = <<10, 10, 10, 255, 254, 10, 254, 255>>
    /\ fmt_out.hexs = <<"0A", "0A", "0A", "0A", "FE", "FF">>
    /\ fmt_out.text = "0A:0A:0A:0A:FE:FF"

(***************************************************************************)
(* C10 as stated: a completed run fetches the status address first and     *)
(* then every auxiliary address and table column defined for its mode,     *)
(* each exactly once                                                       *)
(***************************************************************************)
\* the [k, oid] entries of the dictionaries defined for a mode
AuxDefined(m) ==
    CASE m = "cpu" -> CPU_NUMERIC_OIDS
      [] m = "temp" -> TEMP_VALUE_OIDS \o TEMP_THRESH_OIDS
      [] m = "mem" -> MEM_VALUE_OIDS
      [] m = "disk" -> DISK_TABLE
      [] m = "ptp" -> PTP_IDS_OIDS \o PTP_PERF_OIDS
      [] m = "pll" -> PLL_INFO_OIDS
      [] m = "sfp" -> PORT_TABLE_OIDS
      [] OTHER -> <<>>

StatusOid(m) ==
    CASE m = "cpu" -> CPU_STATUS_OID [] m = "os" -> OS_STATUS_OID
      [] m = "main" -> MAIN_STATUS_OID [] m = "timing" -> TIMING_STATUS_OID
      [] m = "net" -> NET_STATUS_OID [] m = "temp" -> TEMP_STATUS_OID
      [] m = "mem" -> MEM_STATUS_OID [] m = "disk" -> DISK_STATUS_OID
      [] m = "ptp" -> PTP_STATUS_OID [] m = "pll" -> PLL_STATUS_OID
      [] m = "slave" -> SLAVE_STATUS_OID [] m = "ptpframes" -> PTPFRAMES_STATUS_OID
      [] m = "systemclock" -> SYSTEMCLOCK_STATUS_OID [] m = "sfp" -> SFP_STATUS_OID
      [] m = "endpoint" -> ENDPOINT_STATUS_OID [] m = "swcore" -> SWCORE_STATUS_OID
      [] m = "rtu" -> RTU_STATUS_OID

NoRepeat(seq) == \A i, j \in 1..Len(seq) : seq[i] = seq[j] => i = j

C10_EveryDefinedAddress ==
    Completed =>
        /\ ops[1] = StatusOid(mode)
        /\ NoRepeat(ops)
        /\ {ops[i] : i \in 2..Len(ops)}
             = {AuxDefined(mode)[i].oid : i \in 1..Len(AuxDefined(mode))}

(***************************************************************************)
(* C10 as amended: a completed run performs a sequence of remote           *)
(* operations that depends on the mode only: the status address first,     *)
(* then the auxiliary addresses its branch uses, each exactly once: all    *)
(* of them in cpu, temp, mem and ptp; of the disk table only mount and     *)
(* used; of the port table all columns but index; none in pll              *)
(***************************************************************************)
\* the keys of the auxiliary addresses a mode fetches, in order
AuxFetched(m) ==
    CASE m = "cpu" -> <<"cpu1", "cpu5", "cpu15">>
      [] m = "temp" -> <<"fpga", "pll", "psl", "psr", "fpga", "pll", "psl", "psr">>
      [] m = "mem" -> <<"total", "used", "usedPerc", "free">>
      [] m = "disk" -> <<"mount", "used">>
      [] m = "ptp" -> <<"port", "grandmaster", "servoState", "delayCoefficient">>
      [] m = "sfp" -> <<"name", "sfpError", "vendor", "link", "temp", "txPower", "rxPower">>
      [] OTHER -> <<>>

C10_OperationsByMode ==
    Completed =>
        LET aux == AuxFetched(mode)
            defined == AuxDefined(mode)
            \* temp defines the same keys in two dictionaries, values then thresholds
            entry(i) == IF mode = "temp" /\ i > 4 THEN TEMP_THRESH_OIDS[i - 4]
                        ELSE defined[CHOOSE j \in 1..Len(defined) : defined[j].k = aux[i]]
        IN  /\ ops = <<StatusOid(mode)>> \o [i \in 1..Len(aux) |-> entry(i).oid]
            /\ NoRepeat(ops)

\* a disk check whose status resolves to UNKNOWN still walks mount and used,
\* and no other column of the disk table
C10_Witness ==
    /\ Completed /\ mode = "disk"
    /\ status_val \notin DOMAIN DISK_STATUS_MAP
    /\ exitcode = 3
    /\ ops = <<DISK_STATUS_OID, "1.3.6.1.4.1.96.100.7.1.6.1.2", "1.3.6.1.4.1.96.100.7.1.6.1.4">>

(***************************************************************************)
(* C11: the ptpframes mode resolves its status code with                   *)
(* PTPFRAMES_STATUS_MAP: for every code of that mapping (0, 1, 2, 4, 6)    *)
(* the exit code is the mapping's (3, 0, 2, 1, 1) and the line starts with *)
(* the mapping's label                                                     *)
(***************************************************************************)
C11_PtpFramesOwnMap ==
    (Completed /\ mode = "ptpframes" /\ status_val \in DOMAIN PTPFRAMES_STATUS_MAP)
        => /\ exitcode = PTPFRAMES_STATUS_MAP[status_val].code
           /\ SubSeq(Line, 1, 1) = PTPFRAMES_STATUS_MAP[status_val].msg

\* the columns a table-based check has walked, and the longest of them
Columns == Tail(vals)
Longest == CHOOSE n \in 0..(MaxRows + 1) :
              /\ \A c \in 1..Len(Columns) : Len(Columns[c]) <= n
              /\ \E c \in 1..Len(Columns) : Len(Columns[c]) = n
Range(f) == {f[i] : i \in DOMAIN f}
Uneven == \E c, d \in 1..Len(Columns) : Len(Columns[c]) # Len(Columns[d])
\* every fetch of a table-based check returned, and every entry of a numeric
\* column is a number
TableWalked ==
    /\ Done /\ mode \in {"sfp", "disk"} /\ Len(vals) = Len(Plan(mode))
    /\ \A c \in (IF mode = "sfp" THEN {3, 5, 6, 7, 8} ELSE {3}) :
          \A i \in 1..Len(vals[c]) : IsInt(vals[c][i])
\* how many performance data entries carry the key
Entries(key) == Len(SelectSeq(PerfOf(Line), LAMBDA p : p = key))

(***************************************************************************)
(* C12 as stated: a table-based check whose columns differ in length does  *)
(* not error and drops no row: every position present in any column is     *)
(* reported, the disk check has one entry per position of the longest      *)
(* column, the sfp check one per position whose vendor field is not blank  *)
(***************************************************************************)
C12_NoRowDropped ==
    TableWalked =>
        /\ Completed
        /\ mode = "disk" => Entries("_used=") = Longest
        /\ mode = "sfp" =>
             Entries("_temp=") = Cardinality({i \in 1..Longest : ~RowBlank(i)})

(***************************************************************************)
(* C12: a table-based check whose columns differ in length does not error. *)
(* The sfp check reports the positions of the name column: a missing       *)
(* error, link, temp, txPower or rxPower entry counts as 0 and a missing   *)
(* vendor entry as blank, so that the row is skipped; positions beyond the *)
(* name column are not reported.  The disk check names every mount in the  *)
(* message and pairs mounts with usage only up to the shorter of the two   *)
(* columns: the positions beyond it get no entry.                          *)
(***************************************************************************)
C12_UnevenColumns ==
    TableWalked =>
        /\ Completed
        /\ mode = "sfp" =>
             LET kept == SelectSeq(Rows, LAMBDA i : ~RowBlank(i))
                 entries(i) ==
                    << <<PortName(i), "_temp=", Str(Padded(vals[6], i))>>,
                       <<PortName(i), "_txPower=", Str(Padded(vals[7], i))>>,
                       <<PortName(i), "_rxPower=", Str(Padded(vals[8], i))>> >>
             IN  PerfOf(Line)
                   = Join(Concat([j \in 1..Len(kept) |-> entries(kept[j])]), " ")
        /\ mode = "disk" =>
             LET mounts == vals[2]
                 used == vals[3]
                 paired == IF Len(mounts) <= Len(used) THEN Len(mounts) ELSE Len(used)
             IN  /\ SelectSeq(MsgOf(Line), LAMBDA p : p \in Range(mounts)) = mounts
                 /\ PerfOf(Line)
                      = Join([i \in 1..paired |->
                                <<MountName(i), "_used=", Str(IntOf(used[i]))>>], " ")

\* an sfp check of two populated ports whose temperature column has one entry:
\* the second port is reported with temperature 0
C12_Witness ==
    /\ Completed /\ mode = "sfp" /\ Uneven
    /\ Len(vals[2]) = 2 /\ Len(vals[6]) = 1
    /\ ~RowBlank(1) /\ ~RowBlank(2)
    /\ \E k \in 1..(Len(PerfOf(Line)) - 2) :
          SubSeq(PerfOf(Line), k, k + 2) = <<PortName(2), "_temp=", "0">>

\* the printed line as one string, and the severity label it leads with
Text(line) == JoinStr(line, "")
StartsWith(text, prefix) ==
    Len(text) >= Len(prefix) /\ SubSeq(text, 1, Len(prefix)) = prefix
SeverityLabels == <<"OK", "WARNING", "CRITICAL", "UNKNOWN">>

(***************************************************************************)
(* C13: no run prints one severity and exits with another: a line that     *)
(* leads with the severity label OK, WARNING, CRITICAL or UNKNOWN comes     *)
(* with the exit code 0, 1, 2 or 3 of that severity                        *)
(***************************************************************************)
C13_LabelMatchesExit ==
    (Done /\ Len(stdout) = 1) =>
        \A k \in 0..3 :
            StartsWith(Text(Line), SeverityLabels[k + 1] \o ": ") => exitcode = k

====
